---- MODULE Spec2Model ----
(***************************************************************************)
(* Model of the RLP codec of malik672/rlp: the header discipline           *)
(* (src/src/header.rs), the encoder surface (src/src/encode.rs) and the    *)
(* decoder surface (src/src/decode.rs).                                    *)
(*                                                                         *)
(* Representation.  A byte is a number in 0..255 and a buffer, a sink or a *)
(* cursor is a sequence of bytes.  TLC's integers are 32 bits wide, so a   *)
(* machine integer of W bytes (u8 .. u128, usize) is kept as its W digits  *)
(* in base 256, least significant digit first: digit i has weight          *)
(* 256^(i-1).  to_be_bytes and from_be_bytes reverse the digits,           *)
(* leading_zeros()/8 counts the zero digits at the top.  A type is a       *)
(* sequence of constructor names, <<"vec", "vec", "u8">> being             *)
(* Vec<Vec<u8>>; a value of a list type is the sequence of its items.      *)
(***************************************************************************)
EXTENDS Integers, Sequences, FiniteSets, TLC

VARIABLES
    pc,            \* the operation that produced the current state
    ty,            \* the type parameter T of the call
    value,         \* the value handed to the encoder
    extra,         \* bytes that follow the item in the input
    cut,           \* bytes by which the outer list header under-declares its payload
    is_list,       \* the list flag handed to Header::new or Header::decode_bytes
    input,         \* the byte slice handed to the decoder
    out,           \* the byte sink
    len,           \* what length() returned
    buf,           \* the cursor after the call
    result,        \* what the call returned: [err, val]
    header,        \* the Header built or decoded
    payload_view,  \* Rlp.payload_view
    calls          \* the results of the get_next calls so far

vars == <<pc, ty, value, extra, cut, is_list, input, out, len, buf, result, header,
          payload_view, calls>>

-----------------------------------------------------------------------------
(* Bounds of the model *)

\* longest byte string, text or raw input enumerated byte by byte
MaxLen == 2
\* longest list enumerated item by item
MaxItems == 2
\* longest raw input enumerated byte by byte
MaxWire == 3
\* most bytes an outer list header under-declares
MaxCut == 2
\* longest run of one repeated byte used as a long payload
MaxFill == 57
\* most get_next calls on one walker
MaxCalls == 4
\* longest list payload handed to Vec<T>::decode
MaxPayload == 3
\* the elements a Vec holds before push panics with capacity overflow; stands
\* for usize::MAX, the capacity of a Vec of zero-sized elements
VecCapacity == 5

-----------------------------------------------------------------------------
(* Program constants *)

EMPTY_STRING_CODE == 128
EMPTY_LIST_CODE == 192
MAX_SHORT_LEN == 55
LONG_STRING_OFFSET == 183
LONG_LIST_OFFSET == 247
\* usize::BITS / 8 on the 64-bit targets the crate is built for
UsizeBytes == 8

-----------------------------------------------------------------------------
(* Sequences of bytes *)

Reverse(s) == [i \in 1..Len(s) |-> s[Len(s) + 1 - i]]

Fill(b, n) == [i \in 1..n |-> b]

Drop(s, n) == SubSeq(s, n + 1, Len(s))

Take(s, n) == SubSeq(s, 1, n)

RECURSIVE SeqsUpTo(_, _)
SeqsUpTo(S, n) ==
    IF n = 0 THEN {<<>>}
    ELSE LET shorter == SeqsUpTo(S, n - 1)
         IN  shorter \cup {Append(s, x) : s \in {t \in shorter : Len(t) = n - 1}, x \in S}

\* number of zero bytes at the front of s
RECURSIVE LeadingZeroBytes(_)
LeadingZeroBytes(s) ==
    IF s = <<>> \/ s[1] # 0 THEN 0 ELSE 1 + LeadingZeroBytes(Tail(s))

-----------------------------------------------------------------------------
(* Machine integers as base-256 digits, least significant first *)

Zero(w) == Fill(0, w)

IsZero(x) == \A i \in 1..Len(x) : x[i] = 0

\* x.to_be_bytes()
to_be_bytes(x) == Reverse(x)

\* <$t>::from_be_bytes(b)
from_be_bytes(b) == Reverse(b)

\* x.leading_zeros() / 8
leading_zeros_div8(x) == LeadingZeroBytes(to_be_bytes(x))

\* the digits of a number n < 2^31 on w bytes (n as $t)
RECURSIVE Digits(_, _)
Digits(n, w) == IF w = 0 THEN <<>> ELSE <<n % 256>> \o Digits(n \div 256, w - 1)

\* x fits in 31 bits, so that TLC can hold it as a number
IsSmall(x) == \A i \in 1..Len(x) : (i > 4 => x[i] = 0) /\ (i = 4 => x[i] < 128)

\* the number a small x stands for
RECURSIVE AsNat(_)
AsNat(x) == IF x = <<>> THEN 0 ELSE x[1] + 256 * AsNat(Tail(x))

\* x <= n and x < n for a number n < 2^31
WordLe(x, n) == IsSmall(x) /\ AsNat(x) <= n
WordLt(x, n) == IsSmall(x) /\ AsNat(x) < n

usize(n) == Digits(n, UsizeBytes)

-----------------------------------------------------------------------------
(* header.rs: Header *)

Ok == "Ok"

\* Header { packed }: the payload length with the list flag in the top bit
HeaderNew(list, payload_length) ==
    [packed |-> [payload_length EXCEPT ![UsizeBytes] =
                    IF list /\ @ < 128 THEN @ + 128 ELSE @]]

\* Header::list
HeaderList(h) == h.packed[UsizeBytes] >= 128

\* Header::payload_length
HeaderPayloadLength(h) == [h.packed EXCEPT ![UsizeBytes] = @ % 128]

\* Header::default()
NoHeader == [packed |-> Zero(UsizeBytes)]

\* get_next_byte
get_next_byte(b) ==
    IF b = <<>> THEN [err |-> "InputTooShort", val |-> 0] ELSE [err |-> Ok, val |-> b[1]]

\* static_left_pad without the test of the first byte
header_static_left_pad_lenient(N, data) ==
    IF Len(data) > N THEN [err |-> "Overflow", val |-> <<>>]
    ELSE [err |-> Ok, val |-> Fill(0, N - Len(data)) \o data]

\* header.rs static_left_pad::<N>: the big-endian bytes on N bytes
header_static_left_pad(N, data) ==
    IF Len(data) > N THEN [err |-> "Overflow", val |-> <<>>]
    ELSE IF data # <<>> /\ data[1] = 0 THEN [err |-> "LeadingZero", val |-> <<>>]
    ELSE [err |-> Ok, val |-> Fill(0, N - Len(data)) \o data]

\* to_be_bytes_trimmed (header.rs)
header_to_be_bytes_trimmed(x) ==
    LET be == to_be_bytes(x) IN Drop(be, LeadingZeroBytes(be))

\* length_of_length with the short form ending one byte early
length_of_length_strict(payload_length) ==
    IF WordLt(payload_length, MAX_SHORT_LEN) THEN 1
    ELSE 1 + UsizeBytes - leading_zeros_div8(payload_length)

\* length_of_length
length_of_length(payload_length) ==
    IF WordLe(payload_length, MAX_SHORT_LEN) THEN 1
    ELSE 1 + UsizeBytes - leading_zeros_div8(payload_length)

\* Header::length
HeaderLength(h) == length_of_length(HeaderPayloadLength(h))

\* Header::encode: the bytes appended to the sink
HeaderEncode(h) ==
    LET payload_length == HeaderPayloadLength(h) IN
    IF WordLe(payload_length, MAX_SHORT_LEN)
    THEN <<(IF HeaderList(h) THEN EMPTY_LIST_CODE ELSE EMPTY_STRING_CODE)
             + AsNat(payload_length)>>
    ELSE LET len_be == header_to_be_bytes_trimmed(payload_length)
         IN  <<(IF HeaderList(h) THEN LONG_LIST_OFFSET ELSE LONG_STRING_OFFSET)
                 + Len(len_be)>> \o len_be

\* the tail of Header::decode: the payload must be present
HeaderDecodeFinish(list, payload_length, b) ==
    IF ~WordLe(payload_length, Len(b))
    THEN [err |-> "InputTooShort", h |-> NoHeader, buf |-> b]
    ELSE [err |-> Ok, h |-> HeaderNew(list, payload_length), buf |-> b]

\* the long-form arm of Header::decode, b0 in 0xB8..=0xBF or 0xF8..=0xFF
HeaderDecodeLong(b0, b) ==
    LET list == b0 >= 248
        offset == IF list THEN LONG_LIST_OFFSET ELSE LONG_STRING_OFFSET
        len_of_len == b0 - offset
        b1 == Drop(b, 1)
    IN  IF Len(b1) < len_of_len
        THEN [err |-> "InputTooShort", h |-> NoHeader, buf |-> b1]
        ELSE LET lenb == Take(b1, len_of_len)
                 b2 == Drop(b1, len_of_len)
                 padded == header_static_left_pad(8, lenb)
             IN  IF padded.err # Ok
                 THEN [err |-> padded.err, h |-> NoHeader, buf |-> b2]
                 ELSE LET payload_length == from_be_bytes(padded.val)
                      IN  IF WordLe(payload_length, MAX_SHORT_LEN)
                          THEN [err |-> "NonCanonicalSize", h |-> NoHeader, buf |-> b2]
                          ELSE HeaderDecodeFinish(list, payload_length, b2)

\* Header::decode: [err, h, buf], buf being the cursor as the call leaves it
HeaderDecode(b) ==
    LET first == get_next_byte(b) IN
    IF first.err # Ok THEN [err |-> first.err, h |-> NoHeader, buf |-> b]
    ELSE LET b0 == first.val IN
         IF b0 <= 127 THEN HeaderDecodeFinish(FALSE, usize(1), b)
         ELSE IF b0 <= LONG_STRING_OFFSET
         THEN LET b1 == Drop(b, 1)
                  payload_length == b0 - EMPTY_STRING_CODE
                  next == get_next_byte(b1)
              IN  IF payload_length = 1 /\ next.err # Ok
                  THEN [err |-> next.err, h |-> NoHeader, buf |-> b1]
                  ELSE IF payload_length = 1 /\ next.val < EMPTY_STRING_CODE
                  THEN [err |-> "NonCanonicalSingleByte", h |-> NoHeader, buf |-> b1]
                  ELSE HeaderDecodeFinish(FALSE, usize(payload_length), b1)
         ELSE IF b0 <= 191 \/ b0 >= 248 THEN HeaderDecodeLong(b0, b)
         ELSE HeaderDecodeFinish(TRUE, usize(b0 - EMPTY_LIST_CODE), Drop(b, 1))

\* Header::decode_bytes without the test of the list flag
HeaderDecodeBytesAnyShape(b, list) ==
    LET hd == HeaderDecode(b) IN
    IF hd.err # Ok THEN [err |-> hd.err, val |-> <<>>, buf |-> hd.buf]
    ELSE LET payload_length == HeaderPayloadLength(hd.h) IN
         IF ~WordLe(payload_length, Len(hd.buf))
         THEN [err |-> "InputTooShort", val |-> <<>>, buf |-> hd.buf]
         ELSE [err |-> Ok,
               val |-> Take(hd.buf, AsNat(payload_length)),
               buf |-> Drop(hd.buf, AsNat(payload_length))]

\* Header::decode_bytes: [err, val, buf], val being the payload slice
HeaderDecodeBytes(b, list) ==
    LET hd == HeaderDecode(b) IN
    IF hd.err # Ok THEN [err |-> hd.err, val |-> <<>>, buf |-> hd.buf]
    ELSE IF HeaderList(hd.h) # list
    THEN [err |-> IF list THEN "UnexpectedString" ELSE "UnexpectedList",
          val |-> <<>>, buf |-> hd.buf]
    ELSE LET payload_length == HeaderPayloadLength(hd.h) IN
         IF ~WordLe(payload_length, Len(hd.buf))
         THEN [err |-> "InputTooShort", val |-> <<>>, buf |-> hd.buf]
         ELSE [err |-> Ok,
               val |-> Take(hd.buf, AsNat(payload_length)),
               buf |-> Drop(hd.buf, AsNat(payload_length))]

\* well-formed UTF-8, as core::str::from_utf8 accepts it: every byte that is
\* not a continuation byte starts a well-formed character, and every
\* continuation byte belongs to the character started before it
IsUtf8(s) ==
    LET n == Len(s)
        In(i, lo, hi) == i <= n /\ s[i] >= lo /\ s[i] <= hi
        Cont(i) == In(i, 128, 191)
        \* the length of the character a lead byte announces, 0 for no lead byte
        Width1(c) ==
            IF c <= 127 THEN 1
            ELSE IF c >= 194 /\ c <= 223 THEN 2
            ELSE IF c >= 224 /\ c <= 239 THEN 3
            ELSE IF c >= 240 /\ c <= 244 THEN 4
            ELSE 0
        Second(i) ==
            CASE s[i] = 224 -> In(i + 1, 160, 191)
              [] s[i] = 237 -> In(i + 1, 128, 159)
              [] s[i] = 240 -> In(i + 1, 144, 191)
              [] s[i] = 244 -> In(i + 1, 128, 143)
              [] OTHER -> Cont(i + 1)
        WellFormedAt(i) ==
            /\ Width1(s[i]) > 0
            /\ Width1(s[i]) >= 2 => Second(i)
            /\ \A k \in 2..(Width1(s[i]) - 1) : Cont(i + k)
    IN  \A i \in 1..n :
            IF Cont(i)
            THEN \E j \in 1..3 : i - j >= 1 /\ ~Cont(i - j) /\ Width1(s[i - j]) > j
                                  /\ \A k \in 1..(j - 1) : Cont(i - k)
            ELSE WellFormedAt(i)

\* Header::decode_str
HeaderDecodeStr(b) ==
    LET r == HeaderDecodeBytes(b, FALSE) IN
    IF r.err # Ok THEN r
    ELSE IF ~IsUtf8(r.val) THEN [err |-> "UnexpectedString", val |-> <<>>, buf |-> r.buf]
    ELSE r

-----------------------------------------------------------------------------
(* encode.rs: Encodable *)

UintNames == {"u8", "u16", "u32", "u64", "usize", "u128"}

\* <$t>::BITS / 8
Width(t) ==
    CASE t = "u8" -> 1 [] t = "u16" -> 2 [] t = "u32" -> 4
      [] t = "u64" -> 8 [] t = "usize" -> UsizeBytes [] t = "u128" -> 16

\* x < EMPTY_STRING_CODE as $t
BelowStringCode(x) == WordLt(x, EMPTY_STRING_CODE)

\* to_be_bytes_trimmed! (encode.rs)
to_be_bytes_trimmed(x) == Drop(to_be_bytes(x), leading_zeros_div8(x))

\* impl_uint: length
UintLength(x) ==
    IF BelowStringCode(x) THEN 1 ELSE 1 + Len(x) - leading_zeros_div8(x)

\* impl_uint's encode without the arm for 0
UintEncodeZeroAsByte(x) ==
    IF BelowStringCode(x) THEN <<x[1]>>
    ELSE LET be == to_be_bytes_trimmed(x) IN <<EMPTY_STRING_CODE + Len(be)>> \o be

\* impl_uint: encode
UintEncode(x) ==
    IF IsZero(x) THEN <<EMPTY_STRING_CODE>>
    ELSE IF BelowStringCode(x) THEN <<x[1]>>
    ELSE LET be == to_be_bytes_trimmed(x) IN <<EMPTY_STRING_CODE + Len(be)>> \o be

\* the length of a byte slice without the case of the single byte below 0x80
BytesLengthWithHeader(s) == Len(s) + length_of_length(usize(Len(s)))

\* impl Encodable for [u8]: length
BytesLength(s) ==
    IF Len(s) # 1 \/ s[1] >= EMPTY_STRING_CODE
    THEN Len(s) + length_of_length(usize(Len(s)))
    ELSE Len(s)

\* impl Encodable for [u8]: encode
BytesEncode(s) ==
    IF Len(s) # 1 \/ s[1] >= EMPTY_STRING_CODE
    THEN HeaderEncode(HeaderNew(FALSE, usize(Len(s)))) \o s
    ELSE s

RECURSIVE Length(_, _)
RECURSIVE Encode(_, _)
RECURSIVE SumLength(_, _)
RECURSIVE EncodeEach(_, _)

\* the loop of list_header and of encode_iter: the sum of the items' length()
SumLength(T, values) ==
    IF values = <<>> THEN 0 ELSE Length(T, Head(values)) + SumLength(T, Tail(values))

\* the loop of encode_list and of encode_iter: each item's encoding, in order
EncodeEach(T, values) ==
    IF values = <<>> THEN <<>>
    ELSE Encode(T, Head(values)) \o EncodeEach(T, Tail(values))

\* list_header
list_header(T, values) == HeaderNew(TRUE, usize(SumLength(T, values)))

\* list_length
list_length(T, values) ==
    LET h == list_header(T, values) IN AsNat(HeaderPayloadLength(h)) + HeaderLength(h)

\* encode_list: the bytes appended to the sink
encode_list(T, values) ==
    HeaderEncode(list_header(T, values)) \o EncodeEach(T, values)

\* the first loop of encode_iter: h after the loop has run over values,
\* from h = Header { packed: 0 }
RECURSIVE IterHeader(_, _)
IterHeader(T, values) ==
    IF values = <<>> THEN [packed |-> Zero(UsizeBytes)]
    ELSE LET h == IterHeader(T, Take(values, Len(values) - 1))
             t == values[Len(values)]
         IN  HeaderNew(TRUE, usize(AsNat(HeaderPayloadLength(h)) + Length(T, t)))

\* encode_iter: the bytes appended to the sink
encode_iter(T, values) ==
    HeaderEncode(IterHeader(T, values)) \o EncodeEach(T, values)

\* Encodable::length for a value of type T
Length(T, v) ==
    CASE Head(T) \in UintNames -> UintLength(v)
      [] Head(T) \in {"bytes", "str"} -> BytesLength(v)
      [] Head(T) = "vec" -> list_length(Tail(T), v)
      [] Head(T) = "wrap" -> Length(Tail(T), v)
      [] Head(T) = "phantom" -> 0

\* Encodable::encode for a value of type T: the bytes appended to the sink
Encode(T, v) ==
    CASE Head(T) \in UintNames -> UintEncode(v)
      [] Head(T) \in {"bytes", "str"} -> BytesEncode(v)
      [] Head(T) = "vec" -> encode_list(Tail(T), v)
      [] Head(T) = "wrap" -> Encode(Tail(T), v)
      [] Head(T) = "phantom" -> <<>>

\* encode(value)
encode(T, v) == Encode(T, v)

-----------------------------------------------------------------------------
(* decode.rs: Decodable *)

\* static_left_pad testing the first byte before the length
static_left_pad_zero_first(N, data) ==
    IF data # <<>> /\ data[1] = 0 THEN [err |-> "LeadingZero", val |-> <<>>]
    ELSE IF Len(data) > N THEN [err |-> "Overflow", val |-> <<>>]
    ELSE [err |-> Ok, val |-> Fill(0, N - Len(data)) \o data]

\* decode.rs static_left_pad::<N>
static_left_pad(N, data) ==
    IF Len(data) > N THEN [err |-> "Overflow", val |-> <<>>]
    ELSE IF data # <<>> /\ data[1] = 0 THEN [err |-> "LeadingZero", val |-> <<>>]
    ELSE [err |-> Ok, val |-> Fill(0, N - Len(data)) \o data]

\* decode_integer! with the payload padded whatever its first byte
UintDecodeLenient(w, b) ==
    LET r == HeaderDecodeBytes(b, FALSE) IN
    IF r.err # Ok THEN r
    ELSE IF Len(r.val) > w THEN [err |-> "Overflow", val |-> <<>>, buf |-> r.buf]
    ELSE [err |-> Ok, val |-> from_be_bytes(Fill(0, w - Len(r.val)) \o r.val),
          buf |-> r.buf]

\* decode_integer!
UintDecode(w, b) ==
    LET r == HeaderDecodeBytes(b, FALSE) IN
    IF r.err # Ok THEN r
    ELSE LET padded == static_left_pad(w, r.val) IN
         IF padded.err # Ok THEN [err |-> padded.err, val |-> <<>>, buf |-> r.buf]
         ELSE [err |-> Ok, val |-> from_be_bytes(padded.val), buf |-> r.buf]

\* impl Decodable for bool: the u8 decoder, then the match on 0, 1 and the rest
BoolDecode(b) ==
    LET r == UintDecode(1, b) IN
    IF r.err # Ok THEN r
    ELSE IF r.val = <<0>> THEN [err |-> Ok, val |-> FALSE, buf |-> r.buf]
    ELSE IF r.val = <<1>> THEN [err |-> Ok, val |-> TRUE, buf |-> r.buf]
    ELSE [err |-> "InputTooShort", val |-> <<>>, buf |-> r.buf]

\* the fixed-size arrays [u8; N] of the model and their N
ArrayNames == {"[u8;1]", "[u8;2]"}
ArrayN(name) == IF name = "[u8;1]" THEN 1 ELSE 2

\* impl Decodable for [u8; N]: a byte string of exactly N bytes
ArrayDecode(N, b) ==
    LET r == HeaderDecodeBytes(b, FALSE) IN
    IF r.err # Ok THEN r
    ELSE IF Len(r.val) = N THEN r
    ELSE [err |-> "UnexpectedLength", val |-> <<>>, buf |-> r.buf]

RECURSIVE Decode(_, _)
RECURSIVE VecLoop(_, _, _)

\* the while loop of Vec<T>::decode over the payload slice
VecLoop(T, bytes, vec) ==
    IF bytes = <<>> THEN [err |-> Ok, val |-> vec]
    ELSE LET r == Decode(T, bytes) IN
         IF r.err # Ok THEN [err |-> r.err, val |-> <<>>]
         ELSE VecLoop(T, r.buf, Append(vec, r.val))

\* impl Decodable for Vec<T>
VecDecode(T, b) ==
    LET r == HeaderDecodeBytes(b, TRUE) IN
    IF r.err # Ok THEN r
    ELSE LET l == VecLoop(T, r.val, <<>>) IN [err |-> l.err, val |-> l.val, buf |-> r.buf]

\* Decodable::decode for type T: [err, val, buf]
Decode(T, b) ==
    CASE Head(T) \in UintNames -> UintDecode(Width(Head(T)), b)
      [] Head(T) = "bytes" -> HeaderDecodeBytes(b, FALSE)
      [] Head(T) = "str" -> HeaderDecodeStr(b)
      [] Head(T) = "vec" -> VecDecode(Tail(T), b)
      [] Head(T) = "phantom" -> [err |-> Ok, val |-> <<>>, buf |-> b]

\* T::decode for the element types of a list, bool and [u8; N] among them
ElemDecode(T, b) ==
    CASE Head(T) = "bool" -> BoolDecode(b)
      [] Head(T) \in ArrayNames -> ArrayDecode(ArrayN(Head(T)), b)
      [] OTHER -> Decode(T, b)

\* decode_exact without the test for bytes left over
decode_exact_prefix(T, bytes) ==
    LET r == Decode(T, bytes) IN
    IF r.err # Ok THEN [err |-> r.err, val |-> <<>>] ELSE [err |-> Ok, val |-> r.val]

\* decode_exact
decode_exact(T, bytes) ==
    LET r == Decode(T, bytes) IN
    IF r.err # Ok THEN [err |-> r.err, val |-> <<>>]
    ELSE IF r.buf # <<>> THEN [err |-> "UnexpectedLength", val |-> <<>>]
    ELSE [err |-> Ok, val |-> r.val]

-----------------------------------------------------------------------------
(* The inputs the specifications draw from *)

ByteSamples == {0, 1, 127, 128, 194, 255}

\* payload lengths on both sides of MAX_SHORT_LEN, and of one length byte
FillLens == ((MAX_SHORT_LEN - 1)..MaxFill) \cup {255, 256}

ByteStrings ==
    SeqsUpTo(ByteSamples, MaxLen) \cup {Fill(b, n) : b \in {0, 128}, n \in FillLens}

StrValues == {s \in ByteStrings : IsUtf8(s)}

\* integers of w bytes: one digit d at place k, the places below all 0 or all 255
UintValues(w) ==
    {[i \in 1..w |-> IF i = k THEN d ELSE IF i < k THEN f ELSE 0] :
        k \in 1..w, d \in ByteSamples, f \in {0, 255}}

RECURSIVE Samples(_)
\* a few values of type T, the items of the lists enumerated
Samples(T) ==
    CASE Head(T) \in UintNames ->
             LET w == Width(Head(T))
             IN  {Zero(w), Digits(1, w), Digits(127, w), Digits(128, w), Fill(255, w)}
      [] Head(T) = "bytes" ->
             \* the last two encode to 27 and 28 bytes: two of them make a list
             \* payload of 54, 55 or 56 bytes
             {<<>>, <<0>>, <<127>>, <<128>>, <<0, 255>>,
              Fill(128, MAX_SHORT_LEN \div 2 - 1), Fill(128, MAX_SHORT_LEN \div 2)}
      [] Head(T) = "str" -> {<<>>, <<0>>, <<127>>, <<194, 128>>}
      [] Head(T) = "vec" ->
             LET S == Samples(Tail(T))
             IN  {<<>>} \cup {<<x>> : x \in S} \cup {<<x, x>> : x \in S}
      [] Head(T) = "wrap" -> Samples(Tail(T))
      [] Head(T) = "phantom" -> {<<>>}

RECURSIVE Values(_)
\* the values of type T the specifications encode
Values(T) ==
    CASE Head(T) \in UintNames -> UintValues(Width(Head(T)))
      [] Head(T) = "bytes" -> ByteStrings
      [] Head(T) = "str" -> StrValues
      [] Head(T) = "vec" ->
             SeqsUpTo(Samples(Tail(T)), MaxItems)
      [] Head(T) = "wrap" -> Values(Tail(T))
      [] Head(T) = "phantom" -> {<<>>}

\* the types with both an Encodable and a Decodable implementation that carry data
DecTypes ==
    {<<u>> : u \in UintNames} \cup {<<"bytes">>, <<"str">>}
      \cup {<<"vec", u>> : u \in {"u8", "u64", "u128", "bytes", "str"}}
      \cup {<<"vec", "vec", u>> : u \in {"u8", "bytes"}}

\* the types with an Encodable implementation
EncTypes ==
    DecTypes \cup {<<"phantom">>, <<"vec", "phantom">>, <<"wrap", "u16">>,
                   <<"wrap", "bytes">>, <<"wrap", "str">>, <<"wrap", "vec", "u8">>,
                   <<"vec", "wrap", "bytes">>}

Extras == {<<>>, <<0>>, <<128>>, <<192, 1>>}

NoResult == [err |-> "None", val |-> <<>>]

-----------------------------------------------------------------------------
(* Encoding a value and decoding what was written *)

\* nothing written, nothing returned yet
Idle ==
    /\ out = <<>>
    /\ len = 0
    /\ buf = <<>>
    /\ result = NoResult
    /\ header = NoHeader
    /\ payload_view = <<>>
    /\ calls = <<>>

\* the state before any call
Fresh == pc = "start" /\ input = <<>> /\ Idle

CodecInit ==
    /\ Fresh
    /\ ty \in EncTypes
    /\ value \in Values(ty)
    /\ extra \in Extras
    /\ cut = 0
    /\ is_list = FALSE

\* encode(value): value.length() sizes the buffer, value.encode fills it
DoEncode ==
    /\ pc = "start"
    /\ len' = Length(ty, value)
    /\ out' = out \o encode(ty, value)
    /\ pc' = "encode"
    /\ UNCHANGED <<ty, value, extra, cut, is_list, input, buf, result, header, payload_view,
                   calls>>

\* encode_iter(values.iter(), out)
DoEncodeIter ==
    /\ pc = "start"
    /\ Head(ty) = "vec"
    /\ out' = out \o encode_iter(Tail(ty), value)
    /\ pc' = "encode_iter"
    /\ UNCHANGED <<ty, value, extra, cut, is_list, input, len, buf, result, header,
                   payload_view, calls>>

\* the encoding of a list whose header declares cut bytes less than its payload
UnderDeclared(T, values, n) ==
    LET payload == EncodeEach(T, values)
    IN  HeaderEncode(HeaderNew(TRUE, usize(Len(payload) - n))) \o payload

\* the caller hands the decoder what was written, followed by the extra bytes
Feed ==
    /\ pc = "encode"
    /\ ty \in DecTypes
    /\ input' = (IF cut = 0 THEN out ELSE UnderDeclared(Tail(ty), value, cut)) \o extra
    /\ pc' = "input"
    /\ UNCHANGED <<ty, value, extra, cut, is_list, out, len, buf, result, header,
                   payload_view, calls>>

\* decode_exact::<T>(input)
DoDecodeExact ==
    /\ pc = "input"
    /\ result' = decode_exact(ty, input)
    /\ pc' = "decode_exact"
    /\ UNCHANGED <<ty, value, extra, cut, is_list, input, out, len, buf, header,
                   payload_view, calls>>

\* T::decode(&mut buf) with buf over input
DoDecode ==
    /\ pc = "input"
    /\ LET r == Decode(ty, input)
       IN  /\ result' = [err |-> r.err, val |-> r.val]
           /\ buf' = r.buf
    /\ pc' = "decode"
    /\ UNCHANGED <<ty, value, extra, cut, is_list, input, out, len, header, payload_view,
                   calls>>

CodecNext == DoEncode \/ DoEncodeIter \/ Feed \/ DoDecodeExact \/ DoDecode

SpecCodec == CodecInit /\ [][CodecNext]_vars

\* C1: decode_exact applied to encode(v) succeeds and returns v.
RoundTrip ==
    (pc = "decode_exact" /\ extra = <<>>) => result = [err |-> Ok, val |-> value]

RoundTripWitness ==
    /\ pc = "decode_exact"
    /\ extra = <<>>
    /\ ty = <<"vec", "vec", "bytes">>
    /\ Len(value) = 2
    /\ result.err = Ok

\* C4: v.length() equals the number of bytes v.encode appends to the sink.
LengthConsistency == pc = "encode" => len = Len(out)

LengthConsistencyWitness ==
    /\ pc = "encode"
    /\ ty = <<"vec", "bytes">>
    /\ len = MAX_SHORT_LEN + 3

\* C5: encode_iter writes the bytes encode_list writes, a list header first;
\* the empty sequence gives the single byte 0xC0.
EncodeIterIsEncodeList ==
    pc = "encode_iter" =>
        /\ out = encode_list(Tail(ty), value)
        /\ out[1] >= EMPTY_LIST_CODE
        /\ (value = <<>> => out = <<EMPTY_LIST_CODE>>)

\* C8: with extra bytes after encode(v), decode_exact fails with
\* UnexpectedLength; T::decode returns v and leaves the cursor on the extra bytes.
PrefixVersusExact ==
    extra # <<>> =>
        /\ pc = "decode_exact" => result.err = "UnexpectedLength"
        /\ pc = "decode" => (result = [err |-> Ok, val |-> value] /\ buf = extra)

PrefixVersusExactWitness ==
    /\ pc = "decode"
    /\ extra = <<192, 1>>
    /\ ty = <<"vec", "u64">>
    /\ Len(value) = 2
    /\ buf = extra

-----------------------------------------------------------------------------
(* Building a header and writing it *)

\* payload lengths: every length up to MaxFill, and lengths of every byte count
\* up to isize::MAX, the longest a slice can be
PayloadLengths ==
    {usize(n) : n \in 0..MaxFill} \cup {x \in UintValues(UsizeBytes) : x[UsizeBytes] < 128}

HeaderInit ==
    /\ Fresh
    /\ ty = <<"usize">>
    /\ value \in PayloadLengths
    /\ is_list \in BOOLEAN
    /\ extra = <<>>
    /\ cut = 0

\* Header::new(list, payload_length)
DoHeaderNew ==
    /\ pc = "start"
    /\ header' = HeaderNew(is_list, value)
    /\ pc' = "header_new"
    /\ UNCHANGED <<ty, value, extra, cut, is_list, input, out, len, buf, result,
                   payload_view, calls>>

\* header.encode(out)
DoHeaderEncode ==
    /\ pc = "header_new"
    /\ out' = out \o HeaderEncode(header)
    /\ pc' = "header_encode"
    /\ UNCHANGED <<ty, value, extra, cut, is_list, input, len, buf, result, header,
                   payload_view, calls>>

\* header.length()
DoHeaderLength ==
    /\ pc = "header_encode"
    /\ len' = HeaderLength(header)
    /\ pc' = "header_length"
    /\ UNCHANGED <<ty, value, extra, cut, is_list, input, out, buf, result, header,
                   payload_view, calls>>

HeaderNext == DoHeaderNew \/ DoHeaderEncode \/ DoHeaderLength

SpecHeader == HeaderInit /\ [][HeaderNext]_vars

\* the number of bytes that hold n with no zero byte in front
MinimalWidth(n) == IF IsZero(n) THEN 0 ELSE CHOOSE L \in 1..Len(n) :
                       n[L] # 0 /\ \A i \in (L + 1)..Len(n) : n[i] = 0

\* n in big-endian on exactly L bytes
BigEndian(n, L) == [j \in 1..L |-> n[L + 1 - j]]

\* the header of the wire format for a payload of n bytes
WireHeader(isList, n) ==
    IF MinimalWidth(n) <= 1 /\ n[1] <= MAX_SHORT_LEN
    THEN <<(IF isList THEN 192 ELSE 128) + n[1]>>
    ELSE <<(IF isList THEN 247 ELSE 183) + MinimalWidth(n)>>
           \o BigEndian(n, MinimalWidth(n))

\* C3: Header::new(list, n).encode writes the header of the wire format, and
\* length() is the number of bytes written.
HeaderWireFormat ==
    /\ pc \in {"header_encode", "header_length"} => out = WireHeader(is_list, value)
    /\ pc = "header_length" =>
           len = Len(out) /\ len = (IF WordLe(value, MAX_SHORT_LEN) THEN 1
                                    ELSE 1 + MinimalWidth(value))

HeaderWireFormatWitness ==
    /\ pc = "header_length"
    /\ is_list
    /\ value[UsizeBytes] = 127
    /\ len = 1 + UsizeBytes

-----------------------------------------------------------------------------
(* Decoding raw input *)

Taxonomy ==
    {"Overflow", "LeadingZero", "InputTooShort", "NonCanonicalSingleByte",
     "NonCanonicalSize", "UnexpectedLength", "UnexpectedString", "UnexpectedList"}

\* one byte of every range Header::decode tells apart
WireAlphabet == {0, 127, 128, 129, 130, 184, 185, 192, 193, 194, 248}

ShortInputs == SeqsUpTo(WireAlphabet, MaxWire)

\* long-form headers of one length byte n, with fewer, as many and more bytes
\* after them than they announce
LongInputs ==
    {<<b0, n>> \o Fill(f, m) :
        b0 \in {184, 248}, n \in {1} \cup FillLens, f \in {0, 128},
        m \in {MAX_SHORT_LEN, MAX_SHORT_LEN + 1, MAX_SHORT_LEN + 2}}

\* a payload of 256 bytes: two strings of 126 bytes
Payload256 == <<184, 126>> \o Fill(128, 126) \o <<184, 126>> \o Fill(128, 126)

\* long-form headers of two length bytes
LongerInputs ==
    {<<b0, hi, lo>> \o Payload256 \o x :
        b0 \in {185, 249}, hi \in {0, 1}, lo \in {0, 1, 56}, x \in {<<>>, <<0>>}}

\* short strings of n bytes, n up to one more than the widest integer
UintInputs ==
    {<<128 + n, d>> \o Fill(f, n - 1) \o x :
        n \in 1..17, d \in {0, 1, 128}, f \in {0, 255}, x \in {<<>>, <<0>>}}

WireInputs == ShortInputs \cup LongInputs \cup LongerInputs \cup UintInputs

\* the types the short inputs are decoded as
ShortTypes == {<<"u8">>, <<"u16">>, <<"bytes">>, <<"vec", "u8">>, <<"vec", "bytes">>}

\* the types an input is decoded as
TypesFor(b) ==
    IF b \in ShortInputs THEN ShortTypes
    ELSE IF b \in UintInputs THEN {<<u>> : u \in UintNames} \cup {<<"bytes">>}
    ELSE {<<"u128">>, <<"bytes">>, <<"str">>, <<"vec", "u8">>, <<"vec", "bytes">>}

WireInit ==
    /\ Idle
    /\ pc = "input"
    /\ input \in WireInputs
    /\ ty = <<"bytes">>
    /\ value = <<>>
    /\ extra = <<>>
    /\ cut = 0
    /\ is_list = FALSE

\* Header::decode(&mut buf) with buf over input
DoHeaderDecode ==
    /\ pc = "input"
    /\ LET r == HeaderDecode(input)
       IN  /\ result' = [err |-> r.err, val |-> <<>>]
           /\ header' = r.h
           /\ buf' = r.buf
    /\ pc' = "header_decode"
    /\ UNCHANGED <<ty, value, extra, cut, is_list, input, out, len, payload_view, calls>>

\* Header::decode_bytes(&mut buf, list) with buf over input
DoDecodeBytes ==
    /\ pc = "input"
    /\ \E l \in BOOLEAN :
          /\ is_list' = l
          /\ LET r == HeaderDecodeBytes(input, l)
             IN  /\ result' = [err |-> r.err, val |-> r.val]
                 /\ buf' = r.buf
    /\ pc' = "decode_bytes"
    /\ UNCHANGED <<ty, value, extra, cut, input, out, len, header, payload_view, calls>>

\* T::decode(&mut buf) with buf over input, for a type T of the caller's choice
WireDecode ==
    /\ pc = "input"
    /\ \E T \in TypesFor(input) :
          /\ ty' = T
          /\ LET r == Decode(T, input)
             IN  /\ result' = [err |-> r.err, val |-> r.val]
                 /\ buf' = r.buf
    /\ pc' = "decode"
    /\ UNCHANGED <<value, extra, cut, is_list, input, out, len, header, payload_view,
                   calls>>

\* decode_exact::<T>(input), for a type T of the caller's choice
WireDecodeExact ==
    /\ pc = "input"
    /\ \E T \in TypesFor(input) :
          /\ ty' = T
          /\ result' = decode_exact(T, input)
    /\ pc' = "decode_exact"
    /\ UNCHANGED <<value, extra, cut, is_list, input, out, len, buf, header, payload_view,
                   calls>>

\* encode(v) of the value v that decode_exact returned
WireEncode ==
    /\ pc = "decode_exact"
    /\ result.err = Ok
    /\ len' = Length(ty, result.val)
    /\ out' = out \o encode(ty, result.val)
    /\ pc' = "encode"
    /\ UNCHANGED <<ty, value, extra, cut, is_list, input, buf, result, header,
                   payload_view, calls>>

WireNext == DoHeaderDecode \/ DoDecodeBytes \/ WireDecode \/ WireDecodeExact \/ WireEncode

SpecWire == WireInit /\ [][WireNext]_vars

\* C2: if decode_exact::<T>(s) succeeds with v then encode(v) is s, and a
\* decoder that does not succeed fails with an error of the taxonomy.
UniqueEncoding ==
    /\ pc = "encode" => out = input
    /\ pc \in {"decode", "decode_exact"} => result.err \in Taxonomy \cup {Ok}

UniqueEncodingWitness ==
    /\ pc = "encode"
    /\ ty = <<"vec", "bytes">>
    /\ Len(result.val) = 2
    /\ Len(input) > 256

\* the number that the bytes s hold in big-endian
RECURSIVE BigEndianValue(_)
BigEndianValue(s) ==
    IF s = <<>> THEN 0 ELSE 256 * BigEndianValue(Take(s, Len(s) - 1)) + s[Len(s)]

\* the item at the front of b as the wire format defines it: whether it is
\* well formed with its payload fully present, whether it is a list, the number
\* hl of header bytes, the number n of payload bytes.  A length field of more
\* than three bytes announces more bytes than any input enumerated here holds.
WireItem(b) ==
    LET b0 == b[1]
        L == IF b0 >= 248 THEN b0 - 247 ELSE b0 - 183
        field == SubSeq(b, 2, 1 + L)
    IN  IF b = <<>> THEN [ok |-> FALSE, isList |-> FALSE, hl |-> 0, n |-> 0]
        ELSE IF b0 <= 127 THEN [ok |-> TRUE, isList |-> FALSE, hl |-> 0, n |-> 1]
        ELSE IF b0 <= 183
        THEN [ok |-> /\ Len(b) >= 1 + (b0 - 128)
                     /\ ~(b0 = 129 /\ b[2] <= 127),
              isList |-> FALSE, hl |-> 1, n |-> b0 - 128]
        ELSE IF b0 >= 192 /\ b0 <= 247
        THEN [ok |-> Len(b) >= 1 + (b0 - 192), isList |-> TRUE, hl |-> 1, n |-> b0 - 192]
        ELSE IF L > 3 \/ Len(b) < 1 + L
        THEN [ok |-> FALSE, isList |-> b0 >= 248, hl |-> 1 + L, n |-> 0]
        ELSE [ok |-> /\ field[1] # 0
                     /\ BigEndianValue(field) > MAX_SHORT_LEN
                     /\ Len(b) >= 1 + L + BigEndianValue(field),
              isList |-> b0 >= 248, hl |-> 1 + L, n |-> BigEndianValue(field)]

\* the payload of the item at the front of b
WirePayload(b) == SubSeq(b, WireItem(b).hl + 1, WireItem(b).hl + WireItem(b).n)

\* b starts with a long-form header of L length bytes, all of them present
LongForm(b, L) ==
    /\ Len(b) >= 1 + L
    /\ b[1] = LONG_STRING_OFFSET + L \/ b[1] = LONG_LIST_OFFSET + L

\* C6: Header::decode rejects a long-form header whose length field starts
\* with a zero byte with LeadingZero, one whose length field is at most 55 with
\* NonCanonicalSize, and 0x81 followed by a byte below 0x80 with
\* NonCanonicalSingleByte.
NonCanonicalRejected ==
    pc = "header_decode" =>
        /\ \A L \in 1..8 :
              LongForm(input, L) =>
                  /\ input[2] = 0 => result.err = "LeadingZero"
                  /\ (/\ input[2] # 0
                      /\ \A i \in 2..L : input[i] = 0
                      /\ input[1 + L] <= MAX_SHORT_LEN) => result.err = "NonCanonicalSize"
        /\ (Len(input) >= 2 /\ input[1] = 129 /\ input[2] <= 127)
              => result.err = "NonCanonicalSingleByte"

NonCanonicalRejectedWitness ==
    /\ pc = "header_decode"
    /\ LongForm(input, 1)
    /\ input[2] = MAX_SHORT_LEN
    /\ Len(input) = 2 + MAX_SHORT_LEN
    /\ result.err = "NonCanonicalSize"

\* b starts with a well-formed string item whose payload is not empty and
\* starts with a zero byte
ZeroLedString(b) ==
    /\ WireItem(b).ok
    /\ ~WireItem(b).isList
    /\ WireItem(b).n >= 1
    /\ WirePayload(b)[1] = 0

\* the statement of C7 as the claim has it: whatever the width, an integer
\* decoded from a string item whose payload starts with a zero byte fails with
\* LeadingZero, and 0 comes from 0x80 alone
ZeroLedIsLeadingZero ==
    (pc = "decode" /\ Head(ty) \in UintNames) =>
        /\ ZeroLedString(input) => result.err = "LeadingZero"
        /\ (result.err = Ok /\ IsZero(result.val)) =>
               (input[1] = EMPTY_STRING_CODE /\ buf = Drop(input, 1))

\* C7: an integer of W bytes decoded from a string item whose payload starts
\* with a zero byte fails with LeadingZero when the payload has at most W bytes
\* and with Overflow when it has more; 0 comes from the empty string 0x80 alone.
IntegerCanonicality ==
    (pc = "decode" /\ Head(ty) \in UintNames) =>
        /\ ZeroLedString(input) =>
               result.err = (IF WireItem(input).n <= Width(Head(ty))
                             THEN "LeadingZero" ELSE "Overflow")
        /\ (result.err = Ok /\ IsZero(result.val)) =>
               (input[1] = EMPTY_STRING_CODE /\ buf = Drop(input, 1))

IntegerCanonicalityWitness ==
    /\ pc = "decode"
    /\ ty = <<"u128">>
    /\ ZeroLedString(input)
    /\ WireItem(input).n = 16
    /\ result.err = "LeadingZero"

\* C9: on a well-formed item whose payload is present, Header::decode_bytes
\* fails with UnexpectedList or UnexpectedString when the shape is not the one
\* expected, and otherwise returns the payload and leaves the cursor after it.
ShapeMismatch ==
    (pc = "decode_bytes" /\ WireItem(input).ok) =>
        IF WireItem(input).isList # is_list
        THEN result.err = (IF is_list THEN "UnexpectedString" ELSE "UnexpectedList")
        ELSE /\ result = [err |-> Ok, val |-> WirePayload(input)]
             /\ buf = Drop(input, WireItem(input).hl + WireItem(input).n)

ShapeMismatchWitness ==
    /\ pc = "decode_bytes"
    /\ is_list
    /\ WireItem(input).ok
    /\ WireItem(input).isList
    /\ WireItem(input).n = 256
    /\ buf = <<0>>

-----------------------------------------------------------------------------
(* Walking a list with Rlp *)

\* the types of the items walked
ItemTypes == {<<"u8">>, <<"u128">>, <<"bytes">>, <<"str">>, <<"vec", "u8">>}

\* what follows the list in the input
RlpExtras == {<<>>, <<192, 1>>}

\* get_next's Ok(None), Ok(Some(v)) and Err(e)
None == [err |-> Ok, some |-> FALSE, val |-> <<>>]
Some(v) == [err |-> Ok, some |-> TRUE, val |-> v]
Err(e) == [err |-> e, some |-> FALSE, val |-> <<>>]

RlpInit ==
    /\ Fresh
    /\ \E T \in ItemTypes : ty = <<"vec">> \o T
    /\ value \in Values(ty)
    /\ extra \in RlpExtras
    /\ cut \in 0..MaxCut
    \* an under-declaring header cuts within the last item
    /\ cut > 0 => (value # <<>> /\ cut < Len(Encode(Tail(ty), value[Len(value)])))
    /\ is_list = TRUE

\* Rlp::new(input)
RlpNew ==
    /\ pc = "input"
    /\ LET r == HeaderDecodeBytes(input, TRUE)
       IN  /\ result' = [err |-> r.err, val |-> <<>>]
           /\ payload_view' = r.val
           /\ pc' = IF r.err = Ok THEN "rlp" ELSE "rlp_failed"
    /\ UNCHANGED <<ty, value, extra, cut, is_list, input, out, len, buf, header, calls>>

\* get_next without the test for the empty view
GetNextUnguarded ==
    /\ pc = "rlp"
    /\ Len(calls) < MaxCalls
    /\ LET r == Decode(Tail(ty), payload_view)
       IN  /\ calls' = Append(calls, IF r.err = Ok THEN Some(r.val) ELSE Err(r.err))
           /\ payload_view' = r.buf
    /\ UNCHANGED <<pc, ty, value, extra, cut, is_list, input, out, len, buf, result,
                   header>>

\* rlp.get_next::<T>()
GetNext ==
    /\ pc = "rlp"
    /\ Len(calls) < MaxCalls
    /\ IF payload_view = <<>>
       THEN /\ calls' = Append(calls, None)
            /\ UNCHANGED payload_view
       ELSE LET r == Decode(Tail(ty), payload_view)
            IN  /\ calls' = Append(calls, IF r.err = Ok THEN Some(r.val) ELSE Err(r.err))
                /\ payload_view' = r.buf
    /\ UNCHANGED <<pc, ty, value, extra, cut, is_list, input, out, len, buf, result,
                   header>>

RlpNext == DoEncode \/ Feed \/ RlpNew \/ GetNext

SpecRlp == RlpInit /\ [][RlpNext]_vars

\* the payload window the outer header declares
Window == LET payload == EncodeEach(Tail(ty), value) IN Take(payload, Len(payload) - cut)

\* s is what is left of w after some bytes at its front
IsSuffix(s, w) == Len(s) <= Len(w) /\ s = Drop(w, Len(w) - Len(s))

\* C10: on the encoding of the list v1..vk, followed by any bytes, the i-th
\* get_next returns Some(vi) up to k and None from then on; the walker stays
\* within the window of the outer header, and an item that runs over the end
\* of the window fails with InputTooShort.
ListWalkerOrdering ==
    pc = "rlp" =>
        /\ IsSuffix(payload_view, Window)
        /\ \A i \in 1..Len(calls) :
              IF i < Len(value) \/ (i = Len(value) /\ cut = 0) THEN calls[i] = Some(value[i])
              ELSE IF cut = 0 THEN calls[i] = None
              ELSE i = Len(value) => calls[i] = Err("InputTooShort")

ListWalkerOrderingWitness ==
    /\ pc = "rlp"
    /\ cut = 0
    /\ extra # <<>>
    /\ Len(value) = 2
    /\ Len(calls) = 4
    /\ calls[2].some
    /\ ~calls[3].some

-----------------------------------------------------------------------------
(* Vec<T>::decode, one loop iteration per step *)

\* the element types T of Vec<T>; PhantomData<U> and PhantomPinned decode
\* alike and are the one type "phantom"
ElemTypes ==
    {<<"u8">>, <<"u16">>, <<"bool">>, <<"[u8;1]">>, <<"[u8;2]">>, <<"bytes">>, <<"str">>,
     <<"vec", "u8">>, <<"phantom">>}

\* the bytes of list payloads: single bytes, short strings, short lists
ElemBytes == {0, 1, 127, 128, 129, 192, 193}

\* a short list header in front of each payload, and inputs that are no list
VecInputs ==
    {<<EMPTY_LIST_CODE + Len(p)>> \o p : p \in SeqsUpTo(ElemBytes, MaxPayload)}
        \cup {<<>>, <<1>>, <<EMPTY_STRING_CODE>>, <<EMPTY_LIST_CODE + 2, 0>>}

\* Header::decode_bytes(buf, true) on each input, tabulated
ListPayload == [b \in VecInputs |-> HeaderDecodeBytes(b, TRUE)]

\* T::decode(&mut bytes) on each payload window, tabulated
ElementDecode ==
    [T \in ElemTypes |-> [b \in SeqsUpTo(ElemBytes, MaxPayload) |-> ElemDecode(T, b)]]

\* before the call: no input, no element type chosen yet
VecInit ==
    /\ Fresh
    /\ ty = <<"u8">>
    /\ value = <<>>
    /\ extra = <<>>
    /\ cut = 0
    /\ is_list = TRUE

\* the caller's Vec::<T>::decode(&mut buf): an element type and an input
VecCall ==
    /\ pc = "start"
    /\ input' \in VecInputs
    /\ ty' \in ElemTypes
    /\ pc' = "input"
    /\ UNCHANGED <<value, extra, cut, is_list, out, len, buf, result, header,
                   payload_view, calls>>

\* let mut bytes = Header::decode_bytes(buf, true)?; let mut vec = Self::new();
\* payload_view is the slice `bytes`, calls is `vec`
VecEnter ==
    /\ pc = "input"
    /\ \E r \in {ListPayload[input]} :
           /\ buf' = r.buf
           /\ payload_view' = r.val
           /\ IF r.err # Ok
              THEN result' = [err |-> r.err, val |-> <<>>] /\ pc' = "done"
              ELSE UNCHANGED result /\ pc' = "loop"
    /\ UNCHANGED <<ty, value, extra, cut, is_list, input, out, len, header, calls>>

\* one iteration: vec.push(T::decode(&mut bytes)?); the push panics with
\* "capacity overflow" once vec holds as many elements as a Vec can
VecPush ==
    /\ pc = "loop"
    /\ payload_view # <<>>
    /\ \E r \in {ElementDecode[ty][payload_view]} :
           IF r.err # Ok
           THEN /\ result' = [err |-> r.err, val |-> <<>>]
                /\ pc' = "done"
                /\ UNCHANGED <<payload_view, calls>>
           ELSE IF Len(calls) = VecCapacity
           THEN /\ pc' = "panic"
                /\ payload_view' = r.buf
                /\ UNCHANGED <<result, calls>>
           ELSE /\ calls' = Append(calls, r.val)
                /\ payload_view' = r.buf
                /\ UNCHANGED <<pc, result>>
    /\ UNCHANGED <<ty, value, extra, cut, is_list, input, out, len, buf, header>>

\* the loop ends on the empty slice: Ok(vec)
VecReturn ==
    /\ pc = "loop"
    /\ payload_view = <<>>
    /\ result' = [err |-> Ok, val |-> calls]
    /\ pc' = "done"
    /\ UNCHANGED <<ty, value, extra, cut, is_list, input, out, len, buf, header,
                   payload_view, calls>>

VecNext == VecCall \/ VecEnter \/ VecPush \/ VecReturn

\* the call runs on: a step that can be taken is taken
SpecVec == VecInit /\ [][VecNext]_vars /\ WF_vars(VecNext)

\* C11: Vec<T>::decode of any input, for any element type, ends with a value
\* or an error.
VecDecodeTerminates == <>(pc = "done")

\* C11, the element types that occupy bytes: the call ends with a value or an
\* error, and never panics.
ShrinkingElementsTerminate ==
    (pc = "input" /\ ty # <<"phantom">>) ~> (pc = "done" /\ result.err # "None")

\* C11, the element types that occupy bytes: every push has taken at least
\* one byte from the payload, so the pushes number at most payload_length.
PushesShrinkWindow ==
    (ty # <<"phantom">> /\ pc # "start" /\ ListPayload[input].err = Ok) =>
        /\ pc # "panic"
        /\ pc # "input" => Len(calls) + Len(payload_view) <= Len(ListPayload[input].val)

====
